---- MODULE Spec2Model ----
(***************************************************************************)
(* Authentication and authorization core of corpus-te:                     *)
(*   - the OTP challenge service (app/services/otp_service.py) over the    *)
(*     otp table (app/models/otp.py): service calls made one after the     *)
(*     other (Spec), and requests handled concurrently, each a read of the *)
(*     table followed by a separate write (SpecConc);                      *)
(*   - the RBAC guard (app/core/rbac_fastapi.py) (SpecRbac).               *)
(* Time is counted in minutes, the unit of the three OTP settings.         *)
(***************************************************************************)
EXTENDS Integers, Sequences, FiniteSets, TLC

VARIABLES
    now,        \* datetime.now(timezone.utc), in minutes
    otps,       \* the otp table, in insertion order
    last,       \* the service call that has just returned (observation)
    issued,     \* sends that returned success: [phone, code, at] (history)
    used,       \* <<phone, code>> verified with no successful send since (history)
    req,        \* SpecConc: the request each worker is handling
    compares,   \* SpecConc: hash comparisons made against each row (history)
    is_active,  \* SpecRbac: the user table's is_active column, by user id
    links,      \* SpecRbac: the user_roles table, as the role names of each user
    cache,      \* SpecRbac: the lru_cache of get_user_roles_cached, oldest first
    rbac,       \* SpecRbac: the call that has just returned (observation)
    user_phones, \* SpecAuth: the phones of the user table's rows
    http        \* SpecAuth: the response of the /auth request just answered

vars == <<now, otps, last, issued, used, req, compares, is_active, links, cache,
          rbac, user_phones, http>>

authVars == <<user_phones, http>>
otpVars == <<now, otps, last, issued, used, req, compares, authVars>>
rbacVars == <<is_active, links, cache, rbac>>

(***************************************************************************)
(* Bounds of the model.                                                    *)
(***************************************************************************)
MaxTime == 5
MaxRows == 2
MaxTimeConc == 1
\* the other users that sign in one after the other (SpecLru)
CrowdSize == 128

\* phones that request challenges, and a phone that never was sent one
Phones == {"+911"}
Strangers == {"+912"}
AllPhones == Phones \cup Strangers
Codes == {"111111", "222222"}

(***************************************************************************)
(* Settings (app/core/config.py).                                          *)
(***************************************************************************)
OTP_EXPIRY_MINUTES == 5
OTP_MAX_ATTEMPTS == 3
OTP_RATE_LIMIT_MINUTES == 1

None == "None"

(***************************************************************************)
(* hash_otp: HMAC-SHA256 of the code keyed with phone_number + SECRET_KEY. *)
(* The digest is modelled as the term it is computed from (a collision-    *)
(* free keyed hash).                                                       *)
(***************************************************************************)
hash_otp(otp, phone_number) == <<"hmac", phone_number, otp>>

\* mutant: the comparison accepts every code
verify_otp_hash_any(otp, phone_number, stored_hash) == TRUE

verify_otp_hash(otp, phone_number, stored_hash) ==
    hash_otp(otp, phone_number) = stored_hash

(***************************************************************************)
(* The SMS gateway's answers to requests.post, and send_otp_sms's reading  *)
(* of them: the response text is the reference id when the status is 200   *)
(* and the text mentions "success" or is longer than 5 characters; every   *)
(* other answer, and every exception (timeout included), gives None.       *)
(***************************************************************************)
Responses ==
    { [kind |-> "http", status |-> 200, text |-> "success:7", success |-> TRUE, len |-> 9],
      [kind |-> "http", status |-> 200, text |-> "fail", success |-> FALSE, len |-> 4],
      [kind |-> "http", status |-> 500, text |-> "Server Error", success |-> FALSE, len |-> 12],
      [kind |-> "timeout", status |-> 0, text |-> "", success |-> FALSE, len |-> 0] }

send_otp_sms(resp) ==
    IF resp.kind # "http" THEN None
    ELSE IF resp.status = 200
         THEN IF resp.success \/ resp.len > 5 THEN resp.text ELSE None
         ELSE None

\* mutant: the gateway's refusal is not checked
NotNever(reference_id) == FALSE

\* Python's "not reference_id" on an Optional[str]
Not(reference_id) == reference_id = None \/ reference_id = ""

(***************************************************************************)
(* Rows of the otp table (OTPBase, OTP).  updated_at is written but never  *)
(* read by the service and is left out.                                    *)
(***************************************************************************)
OTP(phone_number, otp_hash, expires_at, reference_id, created_at) ==
    [phone_number |-> phone_number, otp_hash |-> otp_hash, attempts |-> 0,
     is_verified |-> FALSE, expires_at |-> expires_at,
     reference_id |-> reference_id, created_at |-> created_at]

Rows(rows) == 1..Len(rows)

\* mutant: >= for > in the window test
check_rate_limit_inclusive(rows, phone_number, t) ==
    ~ \E i \in Rows(rows) :
        /\ rows[i].phone_number = phone_number
        /\ rows[i].created_at >= t - OTP_RATE_LIMIT_MINUTES

\* mutant: only unverified rows count for the window
check_rate_limit_unverified(rows, phone_number, t) ==
    ~ \E i \in Rows(rows) :
        /\ rows[i].phone_number = phone_number
        /\ rows[i].created_at > t - OTP_RATE_LIMIT_MINUTES
        /\ rows[i].is_verified = FALSE

\* mutant: no window at all
check_rate_limit_open(rows, phone_number, t) == TRUE

check_rate_limit(rows, phone_number, t) ==
    ~ \E i \in Rows(rows) :
        /\ rows[i].phone_number = phone_number
        /\ rows[i].created_at > t - OTP_RATE_LIMIT_MINUTES

\* mutant: <= for < in the attempts filter
ValidWhere_le(r, phone_number, t) ==
    /\ r.phone_number = phone_number
    /\ r.expires_at > t
    /\ r.is_verified = FALSE
    /\ r.attempts <= OTP_MAX_ATTEMPTS

\* the WHERE clause of get_valid_otp
ValidWhere(r, phone_number, t) ==
    /\ r.phone_number = phone_number
    /\ r.expires_at > t
    /\ r.is_verified = FALSE
    /\ r.attempts < OTP_MAX_ATTEMPTS

\* mutant: the matching rows of the least created_at (ascending order)
get_valid_otp_oldest(rows, phone_number, t) ==
    { i \in Rows(rows) :
        /\ ValidWhere(rows[i], phone_number, t)
        /\ \A j \in Rows(rows) :
              ValidWhere(rows[j], phone_number, t)
                  => rows[j].created_at >= rows[i].created_at }

\* get_valid_otp: the rows .first() can return, i.e. the matching rows of the
\* greatest created_at (the order among equal created_at is the database's)
get_valid_otp(rows, phone_number, t) ==
    { i \in Rows(rows) :
        /\ ValidWhere(rows[i], phone_number, t)
        /\ \A j \in Rows(rows) :
              ValidWhere(rows[j], phone_number, t)
                  => rows[j].created_at <= rows[i].created_at }

\* mutant: the last permitted attempt is refused without comparison
max_attempts_exceeded_ge(attempts) == attempts >= OTP_MAX_ATTEMPTS

\* verify_otp, line 166: the test on the incremented attempt count
max_attempts_exceeded(attempts) == attempts > OTP_MAX_ATTEMPTS

\* invalidate_otp's update of the rows it selected
\* mutant: the selected rows are deleted
IsKept(r, phone_number) == ~ (r.phone_number = phone_number /\ r.is_verified = FALSE)
Invalidated_deleted(rows, phone_number) ==
    SelectSeq(rows, LAMBDA r : IsKept(r, phone_number))

\* mutant: nothing is marked
Invalidated_nothing(rows, phone_number) == rows

Invalidated(rows, phone_number) ==
    [i \in Rows(rows) |->
        IF rows[i].phone_number = phone_number /\ rows[i].is_verified = FALSE
        THEN [rows[i] EXCEPT !.is_verified = TRUE]
        ELSE rows[i]]

(***************************************************************************)
(* RBAC (app/core/rbac_fastapi.py).  Names are strings; the universes      *)
(* below hold the names of the matrix, spellings of them in another case   *)
(* and names outside the matrix.                                           *)
(***************************************************************************)
RoleEnum == {"admin", "user", "reviewer"}

RoleNames == RoleEnum \cup {"Admin", "guest"}
ResourceNames == {"users", "records", "categories", "Users", "tasks"}
MethodNames == {"GET", "POST", "PUT", "DELETE", "get", "PATCH"}

\* str.lower() on the names used here
lower(s) ==
    CASE s = "Admin" -> "admin"
      [] s = "Users" -> "users"
      [] s = "GET" -> "get"
      [] s = "POST" -> "post"
      [] s = "PUT" -> "put"
      [] s = "DELETE" -> "delete"
      [] s = "PATCH" -> "patch"
      [] OTHER -> s

\* str.upper() on the names used here
upper(s) ==
    CASE s = "get" -> "GET"
      [] s = "admin" -> "ADMIN"
      [] s = "Admin" -> "ADMIN"
      [] s = "user" -> "USER"
      [] s = "reviewer" -> "REVIEWER"
      [] s = "guest" -> "GUEST"
      [] s = "users" -> "USERS"
      [] s = "Users" -> "USERS"
      [] s = "records" -> "RECORDS"
      [] s = "categories" -> "CATEGORIES"
      [] s = "tasks" -> "TASKS"
      [] OTHER -> s

\* the matrix in which the user role may also delete records
PERMISSION_MATRIX_user_delete ==
    [admin    |-> [users      |-> {"GET", "POST", "PUT", "DELETE"},
                   records    |-> {"GET", "POST", "PUT", "DELETE"},
                   categories |-> {"GET", "POST", "PUT", "DELETE"}],
     reviewer |-> [users      |-> {"GET"},
                   records    |-> {"GET", "PUT"},
                   categories |-> {"GET"}],
     user     |-> [records    |-> {"GET", "POST", "PUT", "DELETE"},
                   categories |-> {"GET"}]]

PERMISSION_MATRIX ==
    [admin    |-> [users      |-> {"GET", "POST", "PUT", "DELETE"},
                   records    |-> {"GET", "POST", "PUT", "DELETE"},
                   categories |-> {"GET", "POST", "PUT", "DELETE"}],
     reviewer |-> [users      |-> {"GET"},
                   records    |-> {"GET", "PUT"},
                   categories |-> {"GET"}],
     user     |-> [records    |-> {"GET", "POST", "PUT"},
                   categories |-> {"GET"}]]

\* user_roles is the list of role names, taken as the set of its elements:
\* the loop returns at the first role that permits
has_permission(user_roles, resource, method) ==
    LET resource_lower == lower(resource)
        method_upper == upper(method)
    IN \E role \in user_roles :
          LET role_lower == lower(role) IN
          /\ role_lower \in DOMAIN PERMISSION_MATRIX
          /\ resource_lower \in DOMAIN PERMISSION_MATRIX[role_lower]
          /\ method_upper \in PERMISSION_MATRIX[role_lower][resource_lower]

\* the roles argument of create_rbac_dependency: None, a string or a list.
\* val is the list; for a string it is the one-element list [roles] that
\* check_access builds.
NoRoles == [kind |-> "none", val |-> << >>]
StrRoles(s) == [kind |-> "str", val |-> <<s>>]
ListRoles(l) == [kind |-> "list", val |-> l]

\* Python truth value of the roles argument, and of resource and method
Truthy(roles) ==
    CASE roles.kind = "none" -> FALSE
      [] roles.kind = "str" -> roles.val[1] # ""
      [] roles.kind = "list" -> roles.val # << >>

TruthyStr(s) == s # None /\ s # ""

\* check_access with the two branches joined by AND when both are supplied
check_access_and(user_roles, roles, resource, method) ==
    LET allowed_roles == roles.val
        byRole == Truthy(roles) =>
                     \E i \in 1..Len(allowed_roles) : allowed_roles[i] \in user_roles
        byPermission == (TruthyStr(resource) /\ TruthyStr(method)) =>
                            has_permission(user_roles, resource, method)
    IN IF byRole /\ byPermission THEN "allow" ELSE "403"

\* check_access in which the admin role passes every guard
check_access_admin_bypass(user_roles, roles, resource, method) ==
    LET allowed_roles == roles.val IN
    IF ~ Truthy(roles) /\ ~ (TruthyStr(resource) /\ TruthyStr(method))
    THEN "allow"
    ELSE IF "admin" \in user_roles
    THEN "allow"
    ELSE IF /\ Truthy(roles)
            /\ \E i \in 1..Len(allowed_roles) : allowed_roles[i] \in user_roles
    THEN "allow"
    ELSE IF /\ TruthyStr(resource) /\ TruthyStr(method)
            /\ has_permission(user_roles, resource, method)
    THEN "allow"
    ELSE "403"

\* mutant: a guard is unrestricted only when roles, resource and method
\* are all missing
check_access_strict(user_roles, roles, resource, method) ==
    LET allowed_roles == roles.val IN
    IF ~ Truthy(roles) /\ ~ TruthyStr(resource) /\ ~ TruthyStr(method)
    THEN "allow"
    ELSE IF /\ Truthy(roles)
            /\ \E i \in 1..Len(allowed_roles) : allowed_roles[i] \in user_roles
    THEN "allow"
    ELSE IF /\ TruthyStr(resource) /\ TruthyStr(method)
            /\ has_permission(user_roles, resource, method)
    THEN "allow"
    ELSE "403"

\* check_access, lines 169-194, for an active user whose roles are user_roles
check_access(user_roles, roles, resource, method) ==
    LET allowed_roles == roles.val IN
    IF ~ Truthy(roles) /\ ~ (TruthyStr(resource) /\ TruthyStr(method))
    THEN "allow"
    ELSE IF /\ Truthy(roles)
            /\ \E i \in 1..Len(allowed_roles) : allowed_roles[i] \in user_roles
    THEN "allow"
    ELSE IF /\ TruthyStr(resource) /\ TruthyStr(method)
            /\ has_permission(user_roles, resource, method)
    THEN "allow"
    ELSE "403"

\* the guards of the convenience functions
require_admin == [roles |-> StrRoles("admin"), resource |-> None, method |-> None]
require_users_write == [roles |-> NoRoles, resource |-> "users", method |-> "POST"]
require_users_update == [roles |-> NoRoles, resource |-> "users", method |-> "PUT"]
require_users_delete == [roles |-> NoRoles, resource |-> "users", method |-> "DELETE"]

Users == {"u1", "u2"}
\* users whose account and roles are changed
Principals == {"u1"}
\* the other users, named by their number; their rows never change and are
\* not kept in the variables: each is active and holds the user role
Crowd == { ToString(k) : k \in 1..CrowdSize }
RolesOf(db, user_id) == IF user_id \in DOMAIN db THEN db[user_id] ELSE {"user"}
IsActive(u) == IF u \in DOMAIN is_active THEN is_active[u] ELSE TRUE

\* the lru_cache of get_user_roles_cached
maxsize == 128

CacheIndex(c, user_id) == { i \in 1..Len(c) : c[i].user_id = user_id }

Without(c, i) == [k \in 1..(Len(c) - 1) |-> IF k < i THEN c[k] ELSE c[k + 1]]

\* a resolver that queries user_roles on every call and refreshes its entry
get_user_roles_refreshed(c, db, user_id) ==
    LET e == [user_id |-> user_id, roles |-> RolesOf(db, user_id)]
        rest == SelectSeq(c, LAMBDA x : x.user_id # user_id)
    IN [value |-> RolesOf(db, user_id), cache |-> Append(rest, e)]

\* a cache that is emptied when it is full
get_user_roles_cached_dropall(c, db, user_id) ==
    IF CacheIndex(c, user_id) # {}
    THEN LET i == CHOOSE k \in CacheIndex(c, user_id) : TRUE IN
         [value |-> c[i].roles, cache |-> Append(Without(c, i), c[i])]
    ELSE LET e == [user_id |-> user_id, roles |-> RolesOf(db, user_id)] IN
         [value |-> RolesOf(db, user_id),
          cache |-> IF Len(c) + 1 > maxsize THEN <<e>> ELSE Append(c, e)]

\* get_user_roles_cached(user_id): the value returned and the cache afterwards.
\* A hit returns the stored tuple and makes the entry the most recent; a miss
\* queries user_roles, stores the result and drops the oldest entry of a
\* full cache.
get_user_roles_cached(c, db, user_id) ==
    IF CacheIndex(c, user_id) # {}
    THEN LET i == CHOOSE k \in CacheIndex(c, user_id) : TRUE IN
         [value |-> c[i].roles, cache |-> Append(Without(c, i), c[i])]
    ELSE LET e == [user_id |-> user_id, roles |-> RolesOf(db, user_id)]
             full == Append(c, e)
         IN [value |-> RolesOf(db, user_id),
             cache |-> IF Len(full) > maxsize THEN Tail(full) ELSE full]

GuardRoleValues ==
    {NoRoles, StrRoles("admin"), ListRoles(<< >>), ListRoles(<<"admin">>),
     ListRoles(<<"user">>), ListRoles(<<"reviewer">>),
     ListRoles(<<"admin", "reviewer">>)}
GuardResources == {None, "users", "records", "Users"}
GuardMethods == {None, "GET", "DELETE", "get"}

NoRbac == [op |-> "none"]

\* u2 is the administrator, u1 a user without roles yet
InitRbac ==
    /\ is_active = [u \in Users |-> TRUE]
    /\ links = [u \in Users |-> IF u = "u2" THEN {"admin"} ELSE {}]
    /\ cache = << >>
    /\ rbac = NoRbac

\* no /auth request answered yet
NoResponse == [status |-> 0, detail |-> None, token |-> None]

NoCall == [op |-> "none", phone |-> None, code |-> None, ret |-> None,
           sms |-> 0, ref |-> None]

Call(op, phone, code, ret, sms, ref) ==
    [op |-> op, phone |-> phone, code |-> code, ret |-> ret, sms |-> sms, ref |-> ref]

Workers == {"w1", "w2"}

\* a worker between two requests
Idle == [pc |-> "idle", phone |-> None, code |-> None, row |-> 0, attempts |-> 0]

InitOtp ==
    /\ now = 0
    /\ otps = << >>
    /\ issued = {}
    /\ used = {}

Init ==
    /\ InitOtp
    /\ last = NoCall
    /\ req = [w \in Workers |-> Idle]
    /\ compares = << >>
    /\ InitRbac
    /\ user_phones = {}
    /\ http = NoResponse

(***************************************************************************)
(* Time passes between calls.                                              *)
(***************************************************************************)
Tick ==
    /\ now < MaxTime
    /\ now' = now + 1
    /\ last' = NoCall
    /\ UNCHANGED <<otps, issued, used>>

(***************************************************************************)
(* OTPService.send_otp(phone_number).  otp_code is generate_otp()'s draw   *)
(* and resp the gateway's answer.                                          *)
(***************************************************************************)
SendOtp(phone_number) ==
    \/ /\ ~ check_rate_limit(otps, phone_number, now)
       /\ last' = Call("send", phone_number, None, "rate_limited", 0, None)
       /\ UNCHANGED <<now, otps, issued, used>>
    \/ /\ check_rate_limit(otps, phone_number, now)
       /\ \E otp_code \in Codes, resp \in Responses :
            LET reference_id == send_otp_sms(resp) IN
            IF Not(reference_id)
            THEN /\ last' = Call("send", phone_number, None, "gateway_failure", 1, reference_id)
                 /\ UNCHANGED <<now, otps, issued, used>>
            ELSE /\ Len(otps) < MaxRows
                 /\ otps' = Append(otps,
                        OTP(phone_number, hash_otp(otp_code, phone_number),
                            now + OTP_EXPIRY_MINUTES, reference_id, now))
                 /\ issued' = issued \cup
                        {[phone |-> phone_number, code |-> otp_code, at |-> now]}
                 /\ used' = {u \in used : u[1] # phone_number}
                 /\ last' = Call("send", phone_number, otp_code, "success", 1, reference_id)
                 /\ UNCHANGED now

(***************************************************************************)
(* OTPService.verify_otp(phone_number, otp_code).                          *)
(***************************************************************************)
VerifyOtp(phone_number, otp_code) ==
    LET found == get_valid_otp(otps, phone_number, now) IN
    /\ IF found = {}
       THEN /\ last' = Call("verify", phone_number, otp_code, FALSE, 0, None)
            /\ UNCHANGED <<otps, used>>
       ELSE \E i \in found :
            LET attempts == otps[i].attempts + 1 IN
            IF max_attempts_exceeded(attempts)
            THEN /\ otps' = [otps EXCEPT ![i].attempts = attempts]
                 /\ last' = Call("verify", phone_number, otp_code, FALSE, 0, None)
                 /\ UNCHANGED used
            ELSE IF ~ verify_otp_hash(otp_code, phone_number, otps[i].otp_hash)
            THEN /\ otps' = [otps EXCEPT ![i].attempts = attempts]
                 /\ last' = Call("verify", phone_number, otp_code, FALSE, 0, None)
                 /\ UNCHANGED used
            ELSE /\ otps' = [otps EXCEPT ![i].attempts = attempts,
                                        ![i].is_verified = TRUE]
                 /\ used' = used \cup {<<phone_number, otp_code>>}
                 /\ last' = Call("verify", phone_number, otp_code, TRUE, 0, None)
    /\ UNCHANGED <<now, issued>>

(***************************************************************************)
(* OTPService.invalidate_otp(phone_number).                                *)
(***************************************************************************)
InvalidateOtp(phone_number) ==
    /\ otps' = Invalidated(otps, phone_number)
    /\ last' = Call("invalidate", phone_number, None, None, 0, None)
    /\ UNCHANGED <<now, issued, used>>

Next ==
    \/ Tick /\ UNCHANGED <<req, compares, rbacVars, authVars>>
    \/ \E p \in Phones : SendOtp(p) /\ UNCHANGED <<req, compares, rbacVars, authVars>>
    \/ \E p \in AllPhones, c \in Codes : VerifyOtp(p, c) /\ UNCHANGED <<req, compares, rbacVars, authVars>>
    \/ \E p \in AllPhones : InvalidateOtp(p) /\ UNCHANGED <<req, compares, rbacVars, authVars>>

Spec == Init /\ [][Next]_vars

(***************************************************************************)
(* The /auth endpoints, one request after the other (SpecAuth).  A user is  *)
(* identified by its phone; the access token names the user it is for.     *)
(***************************************************************************)
Response(status, detail, token) ==
    [status |-> status, detail |-> detail, token |-> token]

\* verify-otp answering 200 with a token whatever verify_otp returned
verify_otp_response_lenient(is_valid, phone_number) ==
    Response(200, None, phone_number)

\* POST /auth/verify-otp, lines 203-241: the answer to the request
verify_otp_response(is_valid, phone_number) ==
    IF ~ is_valid
    THEN Response(400, "Invalid or expired OTP", None)
    ELSE Response(200, None, phone_number)

\* POST /auth/send-otp, lines 156-181
SendOtpEndpoint(phone_number) ==
    IF ~ check_rate_limit(otps, phone_number, now)
    THEN /\ http' = Response(429, "Rate limit exceeded. Please try again later.", None)
         /\ last' = NoCall
         /\ UNCHANGED <<now, otps, issued, used, user_phones>>
    ELSE /\ SendOtp(phone_number)
         /\ http' = IF last'.ret = "success"
                    THEN Response(200, "OTP sent successfully", None)
                    ELSE Response(500, "Failed to send OTP", None)
         /\ UNCHANGED user_phones

\* POST /auth/verify-otp, lines 197-241: the user is created when the phone
\* has none, and the token is made for the user
VerifyOtpEndpoint(phone_number, otp_code) ==
    /\ VerifyOtp(phone_number, otp_code)
    /\ http' = verify_otp_response(last'.ret, phone_number)
    /\ user_phones' = IF last'.ret THEN user_phones \cup {phone_number} ELSE user_phones

NextAuth ==
    \/ Tick /\ UNCHANGED <<req, compares, rbacVars, authVars>>
    \/ \E p \in Phones : SendOtpEndpoint(p) /\ UNCHANGED <<req, compares, rbacVars>>
    \/ \E p \in AllPhones, c \in Codes :
          VerifyOtpEndpoint(p, c) /\ UNCHANGED <<req, compares, rbacVars>>

SpecAuth == Init /\ [][NextAuth]_vars

(***************************************************************************)
(* Concurrent requests (SpecConc).  Each worker handles one request at a   *)
(* time with a database session of its own; a request is a sequence of     *)
(* steps, one per statement sent to the database, and the steps of the     *)
(* workers interleave.  The session writes the columns changed in memory:  *)
(* UPDATE otp SET attempts = <the value read + 1> [, is_verified = true].  *)
(***************************************************************************)
\* the history counter stops one past the limit it is compared with
Counted(n) == IF n > OTP_MAX_ATTEMPTS THEN n ELSE n + 1

TickConc ==
    /\ now < MaxTimeConc
    /\ now' = now + 1
    /\ UNCHANGED <<otps, issued, req, compares>>

\* verify_otp, lines 157-163: get_valid_otp, and the increment in memory
VerifyRead(w, phone_number, otp_code) ==
    /\ req[w].pc = "idle"
    /\ LET found == get_valid_otp(otps, phone_number, now) IN
       IF found = {}
       THEN req' = [req EXCEPT ![w] = Idle]
       ELSE \E i \in found :
               req' = [req EXCEPT ![w] =
                          [pc |-> "verify_commit", phone |-> phone_number,
                           code |-> otp_code, row |-> i,
                           attempts |-> otps[i].attempts + 1]]
    /\ UNCHANGED <<now, otps, issued, compares>>

\* verify_otp, lines 165-180: the checks on the loaded row, and the commit
VerifyCommit(w) ==
    /\ req[w].pc = "verify_commit"
    /\ LET i == req[w].row
           r == req[w]
       IN IF max_attempts_exceeded(r.attempts)
          THEN /\ otps' = [otps EXCEPT ![i].attempts = r.attempts]
               /\ req' = [req EXCEPT ![w] = Idle]
               /\ UNCHANGED compares
          ELSE IF ~ verify_otp_hash(r.code, r.phone, otps[i].otp_hash)
          THEN /\ otps' = [otps EXCEPT ![i].attempts = r.attempts]
               /\ req' = [req EXCEPT ![w] = Idle]
               /\ compares' = [compares EXCEPT ![i] = Counted(@)]
          ELSE /\ otps' = [otps EXCEPT ![i].attempts = r.attempts,
                                      ![i].is_verified = TRUE]
               /\ req' = [req EXCEPT ![w] = Idle]
               /\ compares' = [compares EXCEPT ![i] = Counted(@)]
    /\ UNCHANGED <<now, issued>>

\* POST /auth/send-otp, lines 159-164: the endpoint's own check_rate_limit
SendEndpointCheck(w, phone_number) ==
    /\ req[w].pc = "idle"
    /\ req' = [req EXCEPT ![w] =
                 IF check_rate_limit(otps, phone_number, now)
                 THEN [pc |-> "send_service", phone |-> phone_number,
                       code |-> None, row |-> 0, attempts |-> 0]
                 ELSE Idle]
    /\ UNCHANGED <<now, otps, issued, compares>>

\* send_otp, lines 115-119: the service's check_rate_limit; its error result
\* is answered 500 by the endpoint
SendServiceCheck(w) ==
    /\ req[w].pc = "send_service"
    /\ req' = [req EXCEPT ![w] =
                 IF check_rate_limit(otps, req[w].phone, now)
                 THEN [req[w] EXCEPT !.pc = "send_gateway"]
                 ELSE Idle]
    /\ UNCHANGED <<now, otps, issued, compares>>

\* send_otp, lines 121-153: the code, the gateway call and the insert
SendGatewayAndInsert(w) ==
    /\ req[w].pc = "send_gateway"
    /\ \E otp_code \in Codes, resp \in Responses :
         LET reference_id == send_otp_sms(resp)
             p == req[w].phone
         IN IF Not(reference_id)
            THEN /\ req' = [req EXCEPT ![w] = Idle]
                 /\ UNCHANGED <<otps, issued, compares>>
            ELSE /\ Len(otps) < MaxRows
                 /\ otps' = Append(otps,
                        OTP(p, hash_otp(otp_code, p),
                            now + OTP_EXPIRY_MINUTES, reference_id, now))
                 /\ compares' = Append(compares, 0)
                 /\ issued' = issued \cup {[phone |-> p, code |-> otp_code, at |-> now]}
                 /\ req' = [req EXCEPT ![w] = Idle]
    /\ UNCHANGED now

NextConc ==
    \/ TickConc /\ UNCHANGED <<last, used, rbacVars, authVars>>
    \/ \E w \in Workers, p \in Phones, c \in Codes :
          VerifyRead(w, p, c) /\ UNCHANGED <<last, used, rbacVars, authVars>>
    \/ \E w \in Workers : VerifyCommit(w) /\ UNCHANGED <<last, used, rbacVars, authVars>>
    \/ \E w \in Workers, p \in Phones :
          SendEndpointCheck(w, p) /\ UNCHANGED <<last, used, rbacVars, authVars>>
    \/ \E w \in Workers : SendServiceCheck(w) /\ UNCHANGED <<last, used, rbacVars, authVars>>
    \/ \E w \in Workers : SendGatewayAndInsert(w) /\ UNCHANGED <<last, used, rbacVars, authVars>>

SpecConc == Init /\ [][NextConc]_vars

(***************************************************************************)
(* Concurrent POST /auth/verify-otp requests with their answers            *)
(* (SpecVerify): the steps of SpecConc, the verify steps completed by what *)
(* verify_otp returns and what the endpoint answers.                       *)
(***************************************************************************)
\* what verify_otp returns at lines 166-180 for the row worker w has loaded
VerifyReturns(w) ==
    /\ ~ max_attempts_exceeded(req[w].attempts)
    /\ verify_otp_hash(req[w].code, req[w].phone, otps[req[w].row].otp_hash)

\* the endpoint's answer: 400, or the user looked up or created and a token
VerifyAnswered(phone_number, otp_code, is_valid) ==
    /\ last' = Call("verify", phone_number, otp_code, is_valid, 0, None)
    /\ http' = verify_otp_response(is_valid, phone_number)
    /\ user_phones' = IF is_valid THEN user_phones \cup {phone_number} ELSE user_phones

VerifyReadEndpoint(w, phone_number, otp_code) ==
    /\ VerifyRead(w, phone_number, otp_code)
    /\ IF get_valid_otp(otps, phone_number, now) = {}
       THEN VerifyAnswered(phone_number, otp_code, FALSE)
       ELSE UNCHANGED <<last, http, user_phones>>

VerifyCommitEndpoint(w) ==
    /\ VerifyCommit(w)
    /\ VerifyAnswered(req[w].phone, req[w].code, VerifyReturns(w))

NextVerify ==
    \/ TickConc /\ UNCHANGED <<last, used, rbacVars, authVars>>
    \/ \E w \in Workers, p \in Phones, c \in Codes :
          VerifyReadEndpoint(w, p, c) /\ UNCHANGED <<used, rbacVars>>
    \/ \E w \in Workers : VerifyCommitEndpoint(w) /\ UNCHANGED <<used, rbacVars>>
    \/ \E w \in Workers, p \in Phones :
          SendEndpointCheck(w, p) /\ UNCHANGED <<last, used, rbacVars, authVars>>
    \/ \E w \in Workers : SendServiceCheck(w) /\ UNCHANGED <<last, used, rbacVars, authVars>>
    \/ \E w \in Workers : SendGatewayAndInsert(w) /\ UNCHANGED <<last, used, rbacVars, authVars>>

SpecVerify == Init /\ [][NextVerify]_vars

(***************************************************************************)
(* OTPService.get_otp_status(phone_number), called between the other       *)
(* service calls (SpecStatus).                                             *)
(***************************************************************************)
Max(a, b) == IF a >= b THEN a ELSE b

\* datetime.isoformat(): the text of the time
isoformat(t) == <<"iso", t>>

\* mutant: the attempts of the row are not subtracted
get_otp_status_full(rows, phone_number, t) ==
    LET found == get_valid_otp(rows, phone_number, t) IN
    IF found = {}
    THEN { [has_pending_otp |-> FALSE, attempts_remaining |-> OTP_MAX_ATTEMPTS,
            expires_at |-> None,
            can_resend |-> check_rate_limit(rows, phone_number, t)] }
    ELSE { [has_pending_otp |-> TRUE, attempts_remaining |-> OTP_MAX_ATTEMPTS,
            expires_at |-> isoformat(rows[i].expires_at),
            can_resend |-> check_rate_limit(rows, phone_number, t)] : i \in found }

\* the answers get_otp_status can give, one for each row .first() can return
get_otp_status(rows, phone_number, t) ==
    LET found == get_valid_otp(rows, phone_number, t) IN
    IF found = {}
    THEN { [has_pending_otp |-> FALSE, attempts_remaining |-> OTP_MAX_ATTEMPTS,
            expires_at |-> None,
            can_resend |-> check_rate_limit(rows, phone_number, t)] }
    ELSE { [has_pending_otp |-> TRUE,
            attempts_remaining |-> Max(0, OTP_MAX_ATTEMPTS - rows[i].attempts),
            expires_at |-> isoformat(rows[i].expires_at),
            can_resend |-> check_rate_limit(rows, phone_number, t)] : i \in found }

GetOtpStatus(phone_number) ==
    /\ \E r \in get_otp_status(otps, phone_number, now) :
          last' = Call("status", phone_number, None, r, 0, None)
    /\ UNCHANGED <<now, otps, issued, used>>

NextStatus ==
    \/ Next
    \/ \E p \in AllPhones :
          GetOtpStatus(p) /\ UNCHANGED <<req, compares, rbacVars, authVars>>

SpecStatus == Init /\ [][NextStatus]_vars

(***************************************************************************)
(* Concurrent send-otp and resend-otp requests (SpecResend).  A resend      *)
(* request remembers the rows its invalidate_otp call has marked.           *)
(***************************************************************************)
\* POST /auth/resend-otp, lines 262-267: the endpoint's own check_rate_limit
ResendEndpointCheck(w, phone_number) ==
    /\ req[w].pc = "idle"
    /\ req' = [req EXCEPT ![w] =
                 IF check_rate_limit(otps, phone_number, now)
                 THEN [pc |-> "resend_invalidate", phone |-> phone_number,
                       code |-> None, row |-> 0, attempts |-> 0]
                 ELSE Idle]
    /\ UNCHANGED <<now, otps, issued, compares>>

\* POST /auth/resend-otp, line 270: invalidate_otp, then on to send_otp
ResendInvalidate(w) ==
    /\ req[w].pc = "resend_invalidate"
    /\ otps' = Invalidated(otps, req[w].phone)
    /\ req' = [req EXCEPT ![w] =
                 [pc |-> "send_service", phone |-> req[w].phone, code |-> None,
                  row |-> 0, attempts |-> 0,
                  invalidated |-> { i \in Rows(otps) : otps'[i] # otps[i] }]]
    /\ UNCHANGED <<now, issued, compares>>

NextResend ==
    \/ TickConc /\ UNCHANGED <<last, used, rbacVars, authVars>>
    \/ \E w \in Workers, p \in Phones :
          SendEndpointCheck(w, p) /\ UNCHANGED <<last, used, rbacVars, authVars>>
    \/ \E w \in Workers, p \in Phones :
          ResendEndpointCheck(w, p) /\ UNCHANGED <<last, used, rbacVars, authVars>>
    \/ \E w \in Workers : ResendInvalidate(w) /\ UNCHANGED <<last, used, rbacVars, authVars>>
    \/ \E w \in Workers : SendServiceCheck(w) /\ UNCHANGED <<last, used, rbacVars, authVars>>
    \/ \E w \in Workers : SendGatewayAndInsert(w) /\ UNCHANGED <<last, used, rbacVars, authVars>>

SpecResend == Init /\ [][NextResend]_vars

(***************************************************************************)
(* RBAC guards and the endpoints that change what they read (SpecRbac).    *)
(***************************************************************************)
RbacCall(op, user, g, user_roles, ret) ==
    [op |-> op, user |-> user, roles |-> g.roles, resource |-> g.resource,
     method |-> g.method, user_roles |-> user_roles, ret |-> ret]

\* the dependency chain without the is_active tests
Guarded_any(u, g) ==
    LET got == get_user_roles_cached(cache, links, u) IN
    [ret |-> check_access(got.value, g.roles, g.resource, g.method),
     user_roles |-> got.value, cache |-> got.cache]

\* The dependency chain of a guarded endpoint for the bearer of user u's
\* token: get_current_user answers 401 for an inactive user; check_access
\* resolves the roles through the cache and decides.  The result is the
\* answer, the roles resolved and the cache afterwards.
Guarded(u, g) ==
    IF ~ IsActive(u)
    THEN [ret |-> "401", user_roles |-> {}, cache |-> cache]
    ELSE LET got == get_user_roles_cached(cache, links, u) IN
         [ret |-> check_access(got.value, g.roles, g.resource, g.method),
          user_roles |-> got.value, cache |-> got.cache]

\* a request to an endpoint that depends on create_rbac_dependency(roles,
\* resource, method) and changes nothing itself
CheckAccess(u, g) ==
    LET d == Guarded(u, g) IN
    /\ cache' = d.cache
    /\ rbac' = RbacCall("check_access", u, g, d.user_roles, d.ret)
    /\ UNCHANGED <<is_active, links>>

\* POST /users/{user_id}/roles: the links of the user are replaced
AssignRolesToUser(u, user_id, role_names) ==
    LET g == require_users_write
        d == Guarded(u, g)
    IN /\ cache' = d.cache
       /\ rbac' = RbacCall("assign_roles_to_user", u, g, d.user_roles, d.ret)
       /\ links' = IF d.ret = "allow"
                   THEN [links EXCEPT ![user_id] = role_names]
                   ELSE links
       /\ UNCHANGED is_active

\* PUT /users/{user_id}/roles/add: the link is added unless it exists
AddRoleToUser(u, user_id, role_name) ==
    LET g == require_users_update
        d == Guarded(u, g)
    IN /\ cache' = d.cache
       /\ rbac' = RbacCall("add_role_to_user", u, g, d.user_roles, d.ret)
       /\ links' = IF d.ret = "allow"
                   THEN [links EXCEPT ![user_id] = @ \cup {role_name}]
                   ELSE links
       /\ UNCHANGED is_active

\* DELETE /users/{user_id}/roles/{role_id}: the link is deleted if it exists
RemoveRoleFromUser(u, user_id, role_name) ==
    LET g == require_users_delete
        d == Guarded(u, g)
    IN /\ cache' = d.cache
       /\ rbac' = RbacCall("remove_role_from_user", u, g, d.user_roles, d.ret)
       /\ links' = IF d.ret = "allow"
                   THEN [links EXCEPT ![user_id] = @ \ {role_name}]
                   ELSE links
       /\ UNCHANGED is_active

\* PUT /users/{user_id} with is_active in the body
UpdateUser(u, user_id, active) ==
    LET g == require_users_update
        d == Guarded(u, g)
    IN /\ cache' = d.cache
       /\ rbac' = RbacCall("update_user", u, g, d.user_roles, d.ret)
       /\ is_active' = IF d.ret = "allow"
                       THEN [is_active EXCEPT ![user_id] = active]
                       ELSE is_active
       /\ UNCHANGED links

\* POST /system/rbac/clear-cache: clear_role_cache()
ClearRbacCache(u) ==
    LET g == require_admin
        d == Guarded(u, g)
    IN /\ cache' = IF d.ret = "allow" THEN << >> ELSE d.cache
       /\ rbac' = RbacCall("clear_rbac_cache", u, g, d.user_roles, d.ret)
       /\ UNCHANGED <<is_active, links>>

NextRbac ==
    \/ \E u \in Principals, r \in GuardRoleValues, s \in GuardResources, m \in GuardMethods :
          /\ CheckAccess(u, [roles |-> r, resource |-> s, method |-> m])
          /\ UNCHANGED otpVars
    \/ \E u \in Users, t \in Principals, rs \in SUBSET RoleEnum :
          AssignRolesToUser(u, t, rs) /\ UNCHANGED otpVars
    \/ \E u \in Users, t \in Principals, r \in RoleEnum :
          AddRoleToUser(u, t, r) /\ UNCHANGED otpVars
    \/ \E u \in Users, t \in Principals, r \in RoleEnum :
          RemoveRoleFromUser(u, t, r) /\ UNCHANGED otpVars
    \/ \E u \in Users, t \in Principals, b \in BOOLEAN :
          UpdateUser(u, t, b) /\ UNCHANGED otpVars
    \/ \E u \in Users : ClearRbacCache(u) /\ UNCHANGED otpVars

SpecRbac == Init /\ [][NextRbac]_vars

(***************************************************************************)
(* get_user_roles_cached called from several threads (SpecCache).          *)
(* check_access is a plain def, which FastAPI runs in its thread pool, so  *)
(* the lookup in the lru_cache, the query of user_roles and the insertion  *)
(* of the result are three steps that other requests interleave with.  The *)
(* administrator's requests are taken whole and observed through rbac; a   *)
(* thread's resolution is observed in req.                                 *)
(***************************************************************************)
\* lru_cache after the wrapped function returned: the result is inserted
\* unless the key has been inserted in the meantime, and the oldest entry of
\* a full cache is dropped
lru_store(c, user_id, roles) ==
    IF CacheIndex(c, user_id) # {} THEN c
    ELSE LET full == Append(c, [user_id |-> user_id, roles |-> roles])
         IN IF Len(full) > maxsize THEN Tail(full) ELSE full

\* the call enters the lru_cache wrapper: a hit returns the stored tuple and
\* makes the entry the most recent, a miss goes on to the wrapped function
ResolveStart(w, user_id) ==
    /\ req[w].pc = "idle"
    /\ IF CacheIndex(cache, user_id) # {}
       THEN LET i == CHOOSE k \in CacheIndex(cache, user_id) : TRUE IN
            /\ cache' = Append(Without(cache, i), cache[i])
            /\ req' = [req EXCEPT ![w] =
                         [pc |-> "resolved", user |-> user_id, roles |-> cache[i].roles,
                          hit |-> TRUE]]
       ELSE /\ req' = [req EXCEPT ![w] = [pc |-> "query", user |-> user_id]]
            /\ UNCHANGED cache
    /\ UNCHANGED <<is_active, links, rbac>>

\* lines 97-111: the query of the user's roles
ResolveQuery(w) ==
    /\ req[w].pc = "query"
    /\ req' = [req EXCEPT ![w] =
                 [pc |-> "store", user |-> req[w].user,
                  roles |-> RolesOf(links, req[w].user)]]
    /\ UNCHANGED <<is_active, links, cache, rbac>>

\* the wrapper inserts the result and returns it
ResolveStore(w) ==
    /\ req[w].pc = "store"
    /\ cache' = lru_store(cache, req[w].user, req[w].roles)
    /\ req' = [req EXCEPT ![w] =
                 [pc |-> "resolved", user |-> req[w].user, roles |-> req[w].roles,
                  hit |-> FALSE]]
    /\ UNCHANGED <<is_active, links, rbac>>

\* get_user_roles hands the list to check_access, and the request ends
ResolveReturn(w) ==
    /\ req[w].pc = "resolved"
    /\ req' = [req EXCEPT ![w] = Idle]
    /\ UNCHANGED <<is_active, links, cache, rbac>>

NextCache ==
    \/ \E w \in Workers, u \in Principals :
          ResolveStart(w, u) /\ UNCHANGED <<now, otps, last, issued, used, compares, authVars>>
    \/ \E w \in Workers :
          ResolveQuery(w) /\ UNCHANGED <<now, otps, last, issued, used, compares, authVars>>
    \/ \E w \in Workers :
          ResolveStore(w) /\ UNCHANGED <<now, otps, last, issued, used, compares, authVars>>
    \/ \E w \in Workers :
          ResolveReturn(w) /\ UNCHANGED <<now, otps, last, issued, used, compares, authVars>>
    \/ \E t \in Principals, rs \in SUBSET RoleEnum :
          AssignRolesToUser("u2", t, rs) /\ UNCHANGED otpVars
    \/ ClearRbacCache("u2") /\ UNCHANGED otpVars

SpecCache == Init /\ [][NextCache]_vars

(***************************************************************************)
(* has_permission called on its own (SpecPerm).                            *)
(***************************************************************************)
HasPermission(user_roles, resource, method) ==
    /\ rbac' = [op |-> "has_permission", user_roles |-> user_roles,
                resource |-> resource, method |-> method,
                permitted |-> has_permission(user_roles, resource, method)]
    /\ UNCHANGED <<is_active, links, cache>>

NextPerm ==
    \E user_roles \in SUBSET RoleNames, resource \in ResourceNames, method \in MethodNames :
        HasPermission(user_roles, resource, method) /\ UNCHANGED otpVars

SpecPerm == Init /\ [][NextPerm]_vars

(***************************************************************************)
(* The role cache under many users (SpecLru): u1 and the administrator u2   *)
(* as before, and the other users calling a guarded endpoint for the first  *)
(* time, one after the other in the order of their numbers.                 *)
(***************************************************************************)
\* the users of the two most recent entries of the cache
Newest(c) == { c[i].user_id : i \in {Len(c) - 1, Len(c)} \cap (1..Len(c)) }

\* no other user has signed in since the cache was last empty
NoCrowdYet == Newest(cache) \cap Crowd = {}

\* the k-th other user comes after the (k-1)-th
IsNextCrowd(k) ==
    IF k = 1 THEN NoCrowdYet ELSE ToString(k - 1) \in Newest(cache)

require_any_role ==
    [roles |-> ListRoles(<<"admin", "reviewer", "user">>), resource |-> None,
     method |-> None]

NextLru ==
    \/ \E u \in Principals : CheckAccess(u, require_admin) /\ UNCHANGED otpVars
    \/ \E rs \in {{"admin"}, {"user"}} :
          /\ NoCrowdYet
          /\ AssignRolesToUser("u2", "u1", rs)
          /\ UNCHANGED otpVars
    \/ \E k \in 1..CrowdSize :
          /\ IsNextCrowd(k)
          /\ CheckAccess(ToString(k), require_any_role)
          /\ UNCHANGED otpVars
    \/ ClearRbacCache("u2") /\ UNCHANGED otpVars

SpecLru == Init /\ [][NextLru]_vars

(***************************************************************************)
(* Claims about the service called sequentially (Spec).                    *)
(***************************************************************************)

\* p's challenges that are neither verified nor expired
Pending(rows, phone_number, t) ==
    { i \in Rows(rows) : /\ rows[i].phone_number = phone_number
                         /\ rows[i].is_verified = FALSE
                         /\ rows[i].expires_at > t }

\* a send for p returned success less than rate_limit_minutes ago
RecentSuccess(phone_number) ==
    \E s \in issued : s.phone = phone_number /\ now - s.at < OTP_RATE_LIMIT_MINUTES

\* C1: verify_otp(p, c) returns True only if an earlier send_otp(p) returned
\* success (gateway accepted, row persisted) and the code it generated is c.
C1_VerifyNeedsIssuedCode ==
    (last.op = "verify" /\ last.ret = TRUE)
        => \E s \in issued : s.phone = last.phone /\ s.code = last.code /\ s.at <= now

\* an accepted code, issued at an earlier minute
C1_Witness ==
    /\ last.op = "verify"
    /\ last.ret = TRUE
    /\ \E s \in issued : s.phone = last.phone /\ s.code = last.code /\ s.at < now

\* C3: with exactly one unexpired, unverified challenge for p, a verify_otp
\* with a wrong code on attempts k < 3 returns False and leaves attempts at
\* k + 1 (1, 2, 3 from a fresh challenge); once attempts is 3 a call with any
\* code, the correct one included, returns False and changes nothing.
C3_AttemptExhaustion ==
    [][ last'.op = "verify" =>
          \A i \in Rows(otps) :
             Pending(otps, last'.phone, now) = {i} =>
                LET k == otps[i].attempts
                    wrong == hash_otp(last'.code, last'.phone) # otps[i].otp_hash
                IN /\ (k < 3 /\ wrong) =>
                         /\ last'.ret = FALSE
                         /\ otps' = [otps EXCEPT ![i].attempts = k + 1]
                         /\ otps'[i].attempts \in 1..3
                   /\ k >= 3 => (last'.ret = FALSE /\ otps' = otps) ]_vars

\* the fourth call: the correct code, refused on an exhausted challenge
C3_Witness ==
    /\ last.op = "verify"
    /\ last.ret = FALSE
    /\ \E i \in Rows(otps) :
          /\ Pending(otps, last.phone, now) = {i}
          /\ otps[i].attempts = 3
          /\ otps[i].otp_hash = hash_otp(last.code, last.phone)

\* C4: a send_otp(p) issued less than rate_limit_minutes after a send_otp(p)
\* that succeeded returns the rate-limit error; a send_otp(p) issued when no row
\* of p has created_at inside the last rate_limit_minutes succeeds unless the
\* gateway refuses the message.
C4_RateLimitWindow ==
    [][ last'.op = "send" =>
          LET p == last'.phone
              inWindow == \E i \in Rows(otps) :
                             /\ otps[i].phone_number = p
                             /\ now - otps[i].created_at < OTP_RATE_LIMIT_MINUTES
          IN /\ RecentSuccess(p) => (last'.ret = "rate_limited" /\ last'.sms = 0)
             /\ ~ inWindow =>
                   \/ last'.ret = "success"
                   \/ last'.ret = "gateway_failure" /\ last'.sms = 1 /\ last'.ref = None ]_vars

\* a second success for p, after the window of the first has elapsed
C4_Witness ==
    /\ last.op = "send"
    /\ last.ret = "success"
    /\ \E s \in issued : s.phone = last.phone /\ s.at + OTP_RATE_LIMIT_MINUTES <= now

\* C6: send_otp calls the gateway at most once; it adds a row only after the
\* gateway accepted, and the row is new (attempts 0, unverified, expires_at =
\* now + expiry_minutes, the hash of the code sent, the gateway's reference);
\* a gateway failure writes nothing and returns the failure after that single
\* call; success is returned exactly when the row was added.  So every row is
\* that of a successful send and every successful send has its row.
C6_PersistAfterGateway ==
    /\ [][ last'.op = "send" =>
             /\ last'.sms <= 1
             /\ otps' # otps =>
                   /\ last'.sms = 1
                   /\ ~ (last'.ref = None \/ last'.ref = "")
                   /\ \E resp \in Responses :
                         /\ resp.kind = "http" /\ resp.status = 200
                         /\ resp.text = last'.ref
                   /\ otps' = Append(otps,
                         [phone_number |-> last'.phone,
                          otp_hash |-> hash_otp(last'.code, last'.phone),
                          attempts |-> 0, is_verified |-> FALSE,
                          expires_at |-> now + OTP_EXPIRY_MINUTES,
                          reference_id |-> last'.ref, created_at |-> now])
             /\ last'.ret = "success" <=> Len(otps') = Len(otps) + 1
             /\ last'.ret = "gateway_failure" => (last'.sms = 1 /\ otps' = otps) ]_vars
    /\ [](/\ \A i \in Rows(otps) :
                \E s \in issued : /\ s.phone = otps[i].phone_number
                                  /\ hash_otp(s.code, s.phone) = otps[i].otp_hash
                                  /\ s.at = otps[i].created_at
          /\ \A s \in issued :
                \E i \in Rows(otps) : /\ s.phone = otps[i].phone_number
                                      /\ hash_otp(s.code, s.phone) = otps[i].otp_hash
                                      /\ s.at = otps[i].created_at)

\* a send that the gateway refused, after an earlier one that it accepted
C6_Witness ==
    /\ last.op = "send"
    /\ last.ret = "gateway_failure"
    /\ last.sms = 1
    /\ Len(otps) = 1
    /\ Cardinality(issued) = 1

\* C7 as stated: once verify_otp(p, c) has returned True, a later
\* verify_otp(p, c) returns False as long as no send_otp(p) has succeeded since.
C7_Original ==
    [][ (last'.op = "verify" /\ <<last'.phone, last'.code>> \in used)
            => last'.ret = FALSE ]_vars

\* C7 as amended: a verify_otp(p, c) that returns True leaves the row it read
\* verified; and a later verify_otp(p, c), no send_otp(p) having succeeded
\* since, returns False provided p has no other eligible challenge that carries
\* the same code c.
C7_OneTimeUse ==
    [][ last'.op = "verify" =>
          LET p == last'.phone
              c == last'.code
          IN /\ last'.ret = TRUE =>
                   \E i \in get_valid_otp(otps, p, now) :
                      /\ otps'[i].is_verified = TRUE
                      /\ \A j \in Rows(otps) \ {i} : otps'[j] = otps[j]
             /\ ( /\ <<p, c>> \in used
                  /\ ~ \E i \in Rows(otps) :
                         /\ otps[i].phone_number = p
                         /\ otps[i].is_verified = FALSE
                         /\ otps[i].expires_at > now
                         /\ otps[i].attempts < OTP_MAX_ATTEMPTS
                         /\ otps[i].otp_hash = hash_otp(c, p) )
                   => last'.ret = FALSE ]_vars

\* the second verify with the code that was just accepted, refused while an
\* older challenge with another code is still eligible
C7_Witness ==
    /\ last.op = "verify"
    /\ last.ret = FALSE
    /\ <<last.phone, last.code>> \in used
    /\ \E i \in Rows(otps) :
          /\ otps[i].phone_number = last.phone
          /\ otps[i].is_verified = FALSE
          /\ otps[i].attempts = 1

\* C8: when a send_otp(p) succeeded less than rate_limit_minutes ago,
\* invalidate_otp(p) followed by send_otp(p) returns the rate-limit error
\* and writes nothing.
C8_InvalidateKeepsWindow ==
    [][ ( /\ last.op = "invalidate"
          /\ last'.op = "send"
          /\ last'.phone = last.phone
          /\ RecentSuccess(last.phone) )
            => (last'.ret = "rate_limited" /\ otps' = otps) ]_vars

\* the refused send, p's recent challenge having been invalidated unused
C8_Witness ==
    /\ last.op = "send"
    /\ last.ret = "rate_limited"
    /\ \E i \in Rows(otps) :
          /\ otps[i].phone_number = last.phone
          /\ otps[i].created_at = now
          /\ otps[i].is_verified = TRUE
          /\ otps[i].attempts = 0

(***************************************************************************)
(* Claims about concurrent requests (SpecConc).                            *)
(***************************************************************************)

\* C2: in every interleaving of concurrent verify_otp calls for one phone, no
\* two calls both read attempts N and both write N + 1 (so a row's attempts
\* counts the calls whose code was compared against its hash), and the number
\* of calls compared against one row never exceeds max_attempts.
C2_SerializedAttempts ==
    \A i \in Rows(otps) :
        /\ compares[i] = otps[i].attempts
        /\ compares[i] <= OTP_MAX_ATTEMPTS

\* the second half of C2 alone
C2_ComparesBounded ==
    \A i \in Rows(otps) : compares[i] <= OTP_MAX_ATTEMPTS

\* C5: in every interleaving of concurrent send-otp requests for one phone, at
\* most one of them passes the rate-limit check, dispatches an SMS and inserts
\* a row within one rate_limit_minutes window.
C5_OneSendPerWindow ==
    \A i, j \in Rows(otps) :
        (i < j /\ otps[i].phone_number = otps[j].phone_number)
            => otps[j].created_at - otps[i].created_at >= OTP_RATE_LIMIT_MINUTES

(***************************************************************************)
(* Claims about the RBAC guard (SpecRbac) and has_permission (SpecPerm).   *)
(***************************************************************************)

\* the Permission Matrix as the specification tabulates it
CanonicalMatrix ==
    ({"admin"} \X {"users", "records", "categories"} \X {"GET", "POST", "PUT", "DELETE"})
    \cup {<<"reviewer", "users", "GET">>, <<"reviewer", "records", "GET">>,
          <<"reviewer", "records", "PUT">>, <<"reviewer", "categories", "GET">>}
    \cup ({"user"} \X {"records"} \X {"GET", "POST", "PUT"})
    \cup {<<"user", "categories", "GET">>}

\* the guard of the call that has just been decided requires nothing: no
\* non-empty roles value, and not both a resource and a method
NoRequirement ==
    /\ rbac.roles.kind = "none" \/ rbac.roles.val \in {<< >>, <<"">>}
    /\ rbac.resource \in {None, ""} \/ rbac.method \in {None, ""}

\* the resolved roles hold one of the guard's required roles
RoleMatch ==
    \E i \in 1..Len(rbac.roles.val) :
        rbac.roles.val[i] # "" /\ rbac.roles.val[i] \in rbac.user_roles

BothSupplied == rbac.resource \notin {None, ""} /\ rbac.method \notin {None, ""}

\* a guard call answered for an active principal
Decided == rbac.op = "check_access" /\ rbac.ret # "401"

\* C9 as stated: for an active principal with resolved roles R the guard
\* allows exactly when it requires nothing, or R holds a required role, or
\* resource and method are supplied and <<role, resource, method>> is in the
\* Permission Matrix for some role of R.
C9_Original ==
    Decided =>
        ( rbac.ret = "allow" <=>
            \/ NoRequirement
            \/ RoleMatch
            \/ /\ BothSupplied
               /\ \E role \in rbac.user_roles :
                     <<role, rbac.resource, rbac.method>> \in CanonicalMatrix )

\* C9 as amended: the same, the matrix being consulted with the resource name
\* in lower case and the method name in upper case; with both criteria
\* supplied the decision is the OR of the two.  {user} is denied (records,
\* DELETE) and allowed roles=[user]; {reviewer} is allowed roles=[admin] with
\* (users, GET).
C9_GuardDecision ==
    /\ Decided =>
          ( rbac.ret = "allow" <=>
              \/ NoRequirement
              \/ RoleMatch
              \/ /\ BothSupplied
                 /\ \E role \in rbac.user_roles :
                       <<role, lower(rbac.resource), upper(rbac.method)>> \in CanonicalMatrix )
    /\ ( /\ Decided
         /\ rbac.user_roles = {"user"}
         /\ rbac.roles = NoRoles
         /\ rbac.resource = "records" /\ rbac.method = "DELETE" ) => rbac.ret = "403"
    /\ ( /\ Decided
         /\ rbac.user_roles = {"user"}
         /\ rbac.roles = ListRoles(<<"user">>) ) => rbac.ret = "allow"
    /\ ( /\ Decided
         /\ rbac.user_roles = {"reviewer"}
         /\ rbac.roles = ListRoles(<<"admin">>)
         /\ rbac.resource = "users" /\ rbac.method = "GET" ) => rbac.ret = "allow"

\* a reviewer allowed through the matrix by a guard whose role it does not hold
C9_Witness ==
    /\ Decided
    /\ rbac.user_roles = {"reviewer"}
    /\ rbac.roles = ListRoles(<<"admin">>)
    /\ rbac.resource = "users" /\ rbac.method = "GET"
    /\ rbac.ret = "allow"

\* C10 as stated: has_permission(roles, resource, method) is True exactly when
\* <<role, resource, method>> is in the canonical matrix for some role of
\* roles; every other triple is not permitted.
C10_Original ==
    rbac.op = "has_permission" =>
        ( rbac.permitted <=>
            \E role \in rbac.user_roles :
                <<role, rbac.resource, rbac.method>> \in CanonicalMatrix )

\* C10 as amended: has_permission(roles, resource, method) is True exactly
\* when, for some role of roles, the role and the resource in lower case and
\* the method in upper case form a triple of the canonical matrix.
C10_MatrixIgnoringCase ==
    rbac.op = "has_permission" =>
        ( rbac.permitted <=>
            \E role \in rbac.user_roles :
                <<lower(role), lower(rbac.resource), upper(rbac.method)>> \in CanonicalMatrix )

\* a refusal of the user role for DELETE on records, asked in another case
C10_Witness ==
    /\ rbac.op = "has_permission"
    /\ rbac.user_roles = {"user"}
    /\ rbac.resource = "records"
    /\ rbac.method = "DELETE"
    /\ ~ rbac.permitted

\* C11: a guard call for a principal with is_active = False is denied (401),
\* whatever the principal's roles and whatever the guard requires, a guard
\* without requirement included; the roles are not resolved, so the role
\* cache is left as it was.
C11_InactiveDenied ==
    [][ (rbac'.op = "check_access" /\ ~ is_active[rbac'.user])
            => (rbac'.ret = "401" /\ cache' = cache) ]_vars

\* an inactive administrator refused by a guard that requires nothing, no
\* entry of the cache being theirs
C11_Witness ==
    /\ rbac.op = "check_access"
    /\ ~ is_active[rbac.user]
    /\ "admin" \in links[rbac.user]
    /\ rbac.roles = NoRoles /\ rbac.resource = None /\ rbac.method = None
    /\ rbac.ret = "401"
    /\ CacheIndex(cache, rbac.user) = {}

\* C12: a principal whose only role is admin is denied by a guard whose
\* required roles are non-empty and do not contain admin when the guard has
\* not both a resource and a method; a guard with required roles allows such
\* a principal only if admin is among them or the Permission Matrix permits
\* admin the guard's resource and method.
C12_NoAdminBypass ==
    (Decided /\ rbac.user_roles = {"admin"} /\ ~ NoRequirement /\ rbac.roles.val # << >>) =>
        LET listed == \E i \in 1..Len(rbac.roles.val) : rbac.roles.val[i] = "admin"
            matrix == /\ BothSupplied
                      /\ <<"admin", lower(rbac.resource), upper(rbac.method)>> \in CanonicalMatrix
        IN /\ (~ listed /\ ~ BothSupplied) => rbac.ret = "403"
           /\ rbac.ret = "allow" <=> (listed \/ matrix)

\* an administrator refused by the guard that requires the reviewer role
C12_Witness ==
    /\ Decided
    /\ rbac.user_roles = {"admin"}
    /\ rbac.roles = ListRoles(<<"reviewer">>)
    /\ rbac.resource = None /\ rbac.method = None
    /\ rbac.ret = "403"

\* the guarded calls: each resolves the roles of its active caller
GuardedOps ==
    {"check_access", "assign_roles_to_user", "add_role_to_user",
     "remove_role_from_user", "update_user", "clear_rbac_cache"}

\* the roles the cache holds for user u
CachedRoles(u) == cache[CHOOSE i \in CacheIndex(cache, u) : TRUE].roles

C14_MutationClearsCache ==
    /\ [][ ( /\ rbac'.op \in {"assign_roles_to_user", "add_role_to_user",
                              "remove_role_from_user"}
             /\ links' # links ) => cache' = << >> ]_vars
    /\ [](Decided => rbac.user_roles = links[rbac.user])

\* the consequence alone: decisions are taken with the current roles
C14_DecisionUsesCurrentRoles == Decided => rbac.user_roles = links[rbac.user]

\* user u has an entry in cache c
InCache(c, u) == \E i \in 1..Len(c) : c[i].user_id = u

\* C15 as stated: once a resolution has cached X's roles, every later
\* resolution of X returns the cached value, and X's entry stays in the cache
\* until clear_role_cache() is called, whatever calls are made in between.
C15_Original ==
    [][ /\ (rbac'.op \in GuardedOps /\ rbac'.ret # "401" /\ InCache(cache, rbac'.user))
              => rbac'.user_roles = CachedRoles(rbac'.user)
        /\ \A u \in Users :
              (InCache(cache, u) /\ ~ InCache(cache', u))
                  => (rbac'.op = "clear_rbac_cache" /\ rbac'.ret = "allow") ]_vars

\* C15 as amended: a resolution of X returns the cached value as long as X
\* has an entry, and X's entry leaves the cache only when clear_role_cache()
\* is called or when, the cache holding maxsize entries of which X's is the
\* least recently used, the roles of a user without entry are resolved.
C15_EntryKeptUntilClearOrEviction ==
    [][ /\ (rbac'.op \in GuardedOps /\ rbac'.ret # "401" /\ InCache(cache, rbac'.user))
              => rbac'.user_roles = CachedRoles(rbac'.user)
        /\ \A u \in Users :
              (InCache(cache, u) /\ ~ InCache(cache', u))
                  => \/ rbac'.op = "clear_rbac_cache" /\ rbac'.ret = "allow"
                     \/ /\ Len(cache) = maxsize
                        /\ cache[1].user_id = u
                        /\ rbac'.op \in GuardedOps
                        /\ ~ InCache(cache, rbac'.user) ]_vars

\* u1's roles resolved anew in a full cache from which the administrator's
\* entry has been evicted
C15_Witness ==
    /\ rbac.op = "check_access"
    /\ rbac.user = "u1"
    /\ rbac.user_roles = {"user"}
    /\ Len(cache) = maxsize
    /\ cache[maxsize].user_id = "u1"
    /\ ~ InCache(cache, "u2")

\* C16: the persisted attempts of every row of the otp table never
\* decreases, in any sequence or interleaving of calls, concurrent verify_otp
\* calls on one row included.
C16_AttemptsMonotonic ==
    [][ \A i \in Rows(otps) : otps'[i].attempts >= otps[i].attempts ]_vars

\* C17: a send_otp(p) made while a row of p has created_at inside the last
\* rate_limit_minutes returns the rate-limit error, and a send_otp that
\* returns it has not called the SMS gateway and has left the otp table, rows
\* and fields, as it was.
C17_RateLimitedTouchesNothing ==
    [][ last'.op = "send" =>
          LET p == last'.phone
              limited == \E i \in Rows(otps) :
                            /\ otps[i].phone_number = p
                            /\ otps[i].created_at > now - OTP_RATE_LIMIT_MINUTES
          IN /\ limited => last'.ret = "rate_limited"
             /\ last'.ret = "rate_limited" =>
                   /\ limited
                   /\ otps' = otps
                   /\ last'.sms = 0
                   /\ last'.ref = None /\ last'.code = None ]_vars

\* a refused send, the table holding two challenges of which one was tried
C17_Witness ==
    /\ last.op = "send"
    /\ last.ret = "rate_limited"
    /\ Len(otps) = 2
    /\ otps[1].attempts = 1
    /\ otps[2].created_at = now

\* C18: invalidate_otp(p) sets is_verified on the rows of p that were
\* unverified and changes nothing else, neither another field of these rows
\* nor a row of another phone, so that no row of p is eligible afterwards; a
\* verified row stays verified; and verify_otp(p, c) returns False for every
\* code c while all rows of p are verified, that is until a later send_otp(p)
\* succeeds.
C18_InvalidateAll ==
    [][ /\ last'.op = "invalidate" =>
              /\ Len(otps') = Len(otps)
              /\ \A i \in Rows(otps) :
                    otps'[i] = IF otps[i].phone_number = last'.phone
                               THEN [otps[i] EXCEPT !.is_verified = TRUE]
                               ELSE otps[i]
              /\ get_valid_otp(otps', last'.phone, now) = {}
        /\ \A i \in Rows(otps) : otps[i].is_verified => otps'[i].is_verified
        /\ ( /\ last'.op = "verify"
             /\ \A i \in Rows(otps) :
                   otps[i].phone_number = last'.phone => otps[i].is_verified )
              => (last'.ret = FALSE /\ otps' = otps) ]_vars

\* the code of an invalidated, unexpired challenge that was never tried,
\* refused
C18_Witness ==
    /\ last.op = "verify"
    /\ last.ret = FALSE
    /\ \E i \in Rows(otps) :
          /\ otps[i].phone_number = last.phone
          /\ otps[i].otp_hash = hash_otp(last.code, last.phone)
          /\ otps[i].is_verified
          /\ otps[i].attempts = 0
          /\ otps[i].expires_at > now
    /\ \A i \in Rows(otps) : otps[i].is_verified

\* C19: a verify-otp request answers 200 with an access token, the user of
\* the phone being created if it has none, when its verify_otp call returned
\* True; when the call returned False, whatever the reason, it answers 400
\* with the one message "Invalid or expired OTP", without token and without
\* creating a user.  No other request answers with a token or creates a user.
C19_TokenOnlyAfterVerify ==
    [][ /\ last'.op = "verify" =>
              IF last'.ret
              THEN /\ http' = [status |-> 200, detail |-> None, token |-> last'.phone]
                   /\ user_phones' = user_phones \cup {last'.phone}
              ELSE /\ http' = [status |-> 400, detail |-> "Invalid or expired OTP",
                               token |-> None]
                   /\ user_phones' = user_phones
        /\ ((http' # http /\ http'.token # None) \/ user_phones' # user_phones)
              => (last'.op = "verify" /\ last'.ret) ]_vars

\* the correct code of an expired challenge answered 400, no user created
C19_Witness ==
    /\ last.op = "verify"
    /\ last.ret = FALSE
    /\ http.status = 400
    /\ user_phones = {}
    /\ \E i \in Rows(otps) :
          /\ otps[i].phone_number = last.phone
          /\ otps[i].otp_hash = hash_otp(last.code, last.phone)
          /\ otps[i].is_verified = FALSE
          /\ otps[i].attempts = 0
          /\ otps[i].expires_at <= now

\* C20: in every interleaving of concurrent send-otp and resend-otp requests
\* for one phone, a resend request that is refused for rate limiting, by the
\* endpoint's check_rate_limit or by that of send_otp, has marked no row of
\* the otp table.
C20_RefusedResendTouchesNothing ==
    [][ \A w \in Workers :
          ( /\ req[w].pc = "send_service"
            /\ "invalidated" \in DOMAIN req[w]
            /\ req'[w].pc = "idle" ) => req[w].invalidated = {} ]_vars

(***************************************************************************)
(* Claims C21..C30.                                                        *)
(***************************************************************************)

\* rate_limit_minutes have elapsed since the last row created for p
WindowElapsed(rows, phone_number, t) ==
    \A i \in Rows(rows) :
        rows[i].phone_number = phone_number
            => rows[i].created_at <= t - OTP_RATE_LIMIT_MINUTES

\* the row a successful send has created for p and that no call has touched
\* since: the only row of p with the greatest created_at, as inserted
FreshRows(rows, phone_number, t) ==
    { i \in Rows(rows) :
        /\ rows[i].phone_number = phone_number
        /\ rows[i].attempts = 0
        /\ rows[i].is_verified = FALSE
        /\ rows[i].expires_at > t
        /\ \A j \in Rows(rows) \ {i} :
              rows[j].phone_number = phone_number
                  => rows[j].created_at < rows[i].created_at }

\* C21: no state of p's challenges locks the phone out.  Whatever rows p has
\* (verified, expired, exhausted, invalidated), a send_otp(p) made once
\* rate_limit_minutes have elapsed since p's last row reaches the gateway
\* and, when the gateway accepts, returns success and inserts an eligible
\* row holding the hash of the generated code; and verify_otp(p, c) with the
\* code of that row, made before its expiry, returns True.
C21_NoPermanentLockout ==
    [][ /\ ( /\ last'.op = "send"
             /\ WindowElapsed(otps, last'.phone, now) )
          => /\ last'.sms = 1
             /\ ~ Not(last'.ref)
                  => /\ last'.ret = "success"
                     /\ Len(otps') = Len(otps) + 1
                     /\ ValidWhere(otps'[Len(otps')], last'.phone, now')
                     /\ otps'[Len(otps')].otp_hash = hash_otp(last'.code, last'.phone)
                     /\ Len(otps') \in FreshRows(otps', last'.phone, now')
        /\ ( /\ last'.op = "verify"
             /\ \E i \in FreshRows(otps, last'.phone, now) :
                   otps[i].otp_hash = hash_otp(last'.code, last'.phone) )
          => last'.ret = TRUE ]_vars

\* a phone whose earlier challenge is exhausted has been sent a new one and
\* has verified it
C21_Witness ==
    /\ last.op = "verify"
    /\ last.ret = TRUE
    /\ \E i \in Rows(otps) :
          /\ otps[i].phone_number = last.phone
          /\ otps[i].attempts = OTP_MAX_ATTEMPTS
          /\ otps[i].is_verified = FALSE
          /\ otps[i].expires_at > now

\* p's rows that are eligible for verification at time t
Eligible(rows, phone_number, t) ==
    { i \in Rows(rows) : /\ rows[i].phone_number = phone_number
                         /\ rows[i].is_verified = FALSE
                         /\ rows[i].expires_at > t
                         /\ rows[i].attempts < OTP_MAX_ATTEMPTS }

\* the eligible rows of p that no eligible row of p is more recent than
MostRecentEligible(rows, phone_number, t) ==
    { i \in Eligible(rows, phone_number, t) :
        \A j \in Eligible(rows, phone_number, t) :
            rows[j].created_at <= rows[i].created_at }

\* C22: get_otp_status(p) is a pure read.  has_pending_otp is true exactly
\* when p has an eligible row; attempts_remaining is max_attempts minus the
\* attempts of the most recent eligible row, a value in 1..max_attempts, and
\* max_attempts when there is none; expires_at is that row's expiry or
\* None; can_resend is true exactly when no row of p was created less than
\* rate_limit_minutes ago; no row of the table changes.
C22_StatusIsPureRead ==
    [][ last'.op = "status" =>
          LET p == last'.phone
              r == last'.ret
              E == Eligible(otps, p, now)
          IN /\ otps' = otps
             /\ r.has_pending_otp = (E # {})
             /\ E = {} => /\ r.attempts_remaining = OTP_MAX_ATTEMPTS
                          /\ r.expires_at = None
             /\ E # {} => \E i \in MostRecentEligible(otps, p, now) :
                            /\ r.attempts_remaining = OTP_MAX_ATTEMPTS - otps[i].attempts
                            /\ r.attempts_remaining \in 1..OTP_MAX_ATTEMPTS
                            /\ r.expires_at = isoformat(otps[i].expires_at)
             /\ r.can_resend = ~ \E i \in Rows(otps) :
                                    /\ otps[i].phone_number = p
                                    /\ now - otps[i].created_at < OTP_RATE_LIMIT_MINUTES ]_vars

\* the status of a phone whose most recent eligible challenge has one attempt
\* left, while an older eligible challenge is untouched
C22_Witness ==
    /\ last.op = "status"
    /\ last.ret.has_pending_otp
    /\ last.ret.attempts_remaining = 1
    /\ last.ret.can_resend
    /\ \E i \in Eligible(otps, last.phone, now) : otps[i].attempts = 0

\* the eligible rows of p that are older than its most recent eligible row
OlderEligible(rows, phone_number, t) ==
    Eligible(rows, phone_number, t) \ MostRecentEligible(rows, phone_number, t)

\* verify_otp has compared the code with row i only and charged it alone
ChargedOnly(i) ==
    /\ last'.ret = (otps[i].otp_hash = hash_otp(last'.code, last'.phone))
    /\ otps'[i].attempts = otps[i].attempts + 1
    /\ \A j \in Rows(otps) \ {i} : otps'[j] = otps[j]

\* C23 as stated: with several eligible rows, verify_otp compares the code
\* with the eligible row of the greatest created_at and charges that row
\* only, and a call with the correct code of an older eligible row returns
\* False.
C23_Original ==
    [][ ( /\ last'.op = "verify"
          /\ Eligible(otps, last'.phone, now) # {} )
        => /\ \E i \in MostRecentEligible(otps, last'.phone, now) : ChargedOnly(i)
           /\ (\E j \in OlderEligible(otps, last'.phone, now) :
                  otps[j].otp_hash = hash_otp(last'.code, last'.phone))
                => last'.ret = FALSE ]_vars

\* C23: with several eligible rows, verify_otp compares the code with the
\* eligible row of the greatest created_at and charges that row only; a call
\* with the correct code of an older eligible row returns False, increments
\* the newest row's attempts and leaves the older row unchanged, unless the
\* newest row was generated with the same code.
C23_NewestEligibleOnly ==
    [][ ( /\ last'.op = "verify"
          /\ Eligible(otps, last'.phone, now) # {} )
        => \E i \in MostRecentEligible(otps, last'.phone, now) :
              /\ ChargedOnly(i)
              /\ \A j \in OlderEligible(otps, last'.phone, now) :
                    ( /\ otps[j].otp_hash = hash_otp(last'.code, last'.phone)
                      /\ otps[j].otp_hash # otps[i].otp_hash )
                    => /\ last'.ret = FALSE
                       /\ otps'[j] = otps[j] ]_vars

\* the correct code of the older of two eligible challenges has been refused
\* and charged to the newer one
C23_Witness ==
    /\ last.op = "verify"
    /\ last.ret = FALSE
    /\ \E i, j \in Eligible(otps, last.phone, now) :
          /\ otps[j].created_at < otps[i].created_at
          /\ otps[j].otp_hash = hash_otp(last.code, last.phone)
          /\ otps[j].attempts = 0
          /\ otps[i].otp_hash # otps[j].otp_hash
          /\ otps[i].attempts = 1

\* C24: verify_otp(p, c) for a phone without an eligible row (every row of p
\* is verified, expired or exhausted, or p has no row) returns False for
\* every c, the correct code included, and changes no row: no attempt is
\* consumed.
C24_NoEligibleRowNoEffect ==
    [][ ( /\ last'.op = "verify"
          /\ Eligible(otps, last'.phone, now) = {} )
        => /\ last'.ret = FALSE
           /\ otps' = otps ]_vars

\* the correct code of an expired challenge, never tried before, has been
\* refused
C24_Witness ==
    /\ last.op = "verify"
    /\ last.ret = FALSE
    /\ Eligible(otps, last.phone, now) = {}
    /\ \E i \in Rows(otps) :
          /\ otps[i].otp_hash = hash_otp(last.code, last.phone)
          /\ otps[i].expires_at <= now
          /\ otps[i].attempts = 0
          /\ otps[i].is_verified = FALSE

\* C25: for the most recent eligible row of p, with attempts = k <
\* max_attempts, verify_otp(p, c) with the code of that row returns True,
\* sets is_verified and sets attempts to k + 1: the successful call counts
\* as an attempt, and the correct code is still accepted on the
\* max_attempts-th call, after max_attempts - 1 wrong codes.
C25_CorrectCodeAccepted ==
    [][ last'.op = "verify" =>
          \A i \in MostRecentEligible(otps, last'.phone, now) :
             otps[i].otp_hash = hash_otp(last'.code, last'.phone)
               => /\ last'.ret = TRUE
                  /\ otps'[i].is_verified = TRUE
                  /\ otps'[i].attempts = otps[i].attempts + 1
                  /\ otps'[i].attempts \in 1..OTP_MAX_ATTEMPTS ]_vars

\* a challenge verified by the max_attempts-th call
C25_Witness ==
    /\ last.op = "verify"
    /\ last.ret = TRUE
    /\ \E i \in Rows(otps) :
          /\ otps[i].phone_number = last.phone
          /\ otps[i].otp_hash = hash_otp(last.code, last.phone)
          /\ otps[i].is_verified = TRUE
          /\ otps[i].attempts = OTP_MAX_ATTEMPTS

\* C26: the otp table is append-only.  No call (send, verify, invalidate,
\* status) deletes a row; phone_number, otp_hash, expires_at, created_at and
\* reference_id of a row never change after its insertion; is_verified never
\* goes from True back to False.
C26_AppendOnly ==
    [][ /\ Len(otps') >= Len(otps)
        /\ \A i \in Rows(otps) :
              /\ otps'[i].phone_number = otps[i].phone_number
              /\ otps'[i].otp_hash = otps[i].otp_hash
              /\ otps'[i].expires_at = otps[i].expires_at
              /\ otps'[i].created_at = otps[i].created_at
              /\ otps'[i].reference_id = otps[i].reference_id
              /\ otps[i].is_verified => otps'[i].is_verified ]_vars

\* an invalidated, untried challenge is still in the table after a later
\* send and a wrong code charged to the new challenge
C26_Witness ==
    /\ Len(otps) = 2
    /\ otps[1].is_verified = TRUE
    /\ otps[1].attempts = 0
    /\ otps[2].attempts = 1
    /\ otps[2].is_verified = FALSE
    /\ last.op = "status"

\* C27: in every reachable state, under any interleaving of requests, every
\* row has 0 <= attempts <= max_attempts, and the count verify_otp holds
\* after its increment never exceeds max_attempts: the branch "attempts >
\* max_attempts" (commit and return False without comparison) is never taken.
C27_AttemptsBounded ==
    /\ \A i \in Rows(otps) : otps[i].attempts \in 0..OTP_MAX_ATTEMPTS
    /\ \A w \in Workers :
          req[w].pc = "verify_commit" => ~ max_attempts_exceeded(req[w].attempts)

\* a request that read the row at max_attempts - 1 is about to commit while
\* the row has reached max_attempts through another request
C27_Witness ==
    \E w \in Workers :
        /\ req[w].pc = "verify_commit"
        /\ req[w].attempts = OTP_MAX_ATTEMPTS
        /\ otps[req[w].row].attempts = OTP_MAX_ATTEMPTS

\* C28: in every interleaving of concurrent verify-otp requests that carry
\* the correct code of one challenge, at most one is answered True (and a
\* token): no request is answered True for a row that an earlier request
\* has already verified.
C28_OneSuccessPerChallenge ==
    [][ \A w \in Workers :
          ( /\ req[w].pc = "verify_commit"
            /\ req'[w].pc = "idle"
            /\ last'.op = "verify"
            /\ last'.ret = TRUE
            /\ http'.token # None )
          => otps[req[w].row].is_verified = FALSE ]_vars

\* C29: the role cache is correct under concurrency.  Once the roles of X
\* have changed and clear_role_cache() has completed after the change, a
\* get_user_roles(X) that starts afterwards returns the new assignment, also
\* when a cache miss for X that had read the old roles was in flight during
\* the clear: a call that starts while the last administrative request
\* answered is a successful clear-cache, and finds an entry, returns the
\* roles of the user_roles table.
C29_ClearedCacheIsCurrent ==
    [][ \A w \in Workers :
          ( /\ rbac.op = "clear_rbac_cache"
            /\ rbac.ret = "allow"
            /\ req[w].pc = "idle"
            /\ req'[w].pc = "resolved" )
          => req'[w].roles = RolesOf(links, req'[w].user) ]_vars

\* the guard of the call just decided has a non-empty roles value
RolesSupplied ==
    rbac.roles.kind # "none" /\ rbac.roles.val \notin {<< >>, <<"">>}

\* C30: a guard is unrestricted unless it has a non-empty roles value or both
\* a resource and a method.  A guard with only a resource, only a method or
\* an empty role list, and nothing else, allows every active principal
\* whatever its roles; a guard with roles and only one of resource and method
\* skips the permission branch and decides by the role match alone.
C30_PartialGuards ==
    /\ (Decided /\ ~ RolesSupplied /\ ~ BothSupplied) => rbac.ret = "allow"
    /\ (Decided /\ RolesSupplied /\ ~ BothSupplied)
          => (rbac.ret = "allow" <=> RoleMatch)

\* a principal without any role allowed by a guard that names a resource
\* only, with an empty role list
C30_Witness ==
    /\ Decided
    /\ rbac.roles = ListRoles(<< >>)
    /\ rbac.resource = "users"
    /\ rbac.method = None
    /\ rbac.user_roles = {}
    /\ rbac.ret = "allow"

====
